---- MODULE Spec2Model ----
(***************************************************************************)
(* A model of the Lua front end: the lexer (src/src/lex.rs) and the        *)
(* recursive-descent parser (src/src/parse.rs) that builds the AST of      *)
(* src/src/ast.rs.                                                         *)
(*                                                                         *)
(* The source text is a sequence of bytes, each written as a one-character *)
(* string.  Positions are 0-based as in the code: the byte at `pos' is     *)
(* input[pos + 1].                                                         *)
(***************************************************************************)
EXTENDS Integers, Sequences, FiniteSets, TLC

VARIABLES
    input,      \* Lex.input: the source text (never changes)
    lex,        \* a Lex driven directly by a caller, as main() does
    tok,        \* the token the last call of lex.next() returned
    tokStart,   \* the scan position at which that token began
    calls,      \* calls of lex.next() made after it first returned Eof
    ps,         \* the Parser: its lexer, its current token, bookkeeping
    stack,      \* the call stack of parse/statement/expression
    ret,        \* the value the callee that just returned handed back
    stmts,      \* parse()'s local `stmts'
    result,     \* what Parser::new(..).parse() has returned so far
    steps       \* parser steps taken

vars == <<input, lex, tok, tokStart, calls, ps, stack, ret, stmts, result, steps>>

lexVars   == <<lex, tok, tokStart, calls>>
parseVars == <<ps, stack, ret, stmts, result, steps>>

----------------------------------------------------------------------------
(* Bounds of the model *)

\* source texts are concatenations of at most this many lexer words
MaxWords == 2
\* source texts given to the parser: at most this many fragments
MaxFrags == 3
\* calls of next() a caller makes after the first Eof
MaxEofCalls == 2

----------------------------------------------------------------------------
(* Bytes *)

Lower == {"a","b","c","d","e","f","g","h","i","j","k","l","m",
          "n","o","p","q","r","s","t","u","v","w","x","y","z"}
Upper == {"A","B","C","D","E","F","G","H","I","J","K","L","M",
          "N","O","P","Q","R","S","T","U","V","W","X","Y","Z"}
Digit == {"0","1","2","3","4","5","6","7","8","9"}

\* Option::None of peek_byte
NoByte == ""

\* u8::is_ascii_alphanumeric
is_ascii_alphanumeric(b) == b \in Lower \cup Upper \cup Digit

DigitValue(b) ==
    CASE b = "0" -> 0 [] b = "1" -> 1 [] b = "2" -> 2 [] b = "3" -> 3
      [] b = "4" -> 4 [] b = "5" -> 5 [] b = "6" -> 6 [] b = "7" -> 7
      [] b = "8" -> 8 [] b = "9" -> 9

----------------------------------------------------------------------------
(* Tokens.  Every token is a record of one shape: a keyword or operator    *)
(* carries no payload; Name and String carry their slice of the source;    *)
(* Integer carries its value; Float carries the slice that was parsed.     *)

Tok(k) == [kind |-> k, text |-> <<>>, num |-> 0]
TokText(k, s) == [kind |-> k, text |-> s, num |-> 0]
TokInt(n, s) == [kind |-> "Integer", text |-> s, num |-> n]

\* the process aborted inside next(): panic!() or unwrap() of an Err
Panic == Tok("Panic")
\* no call of next() has been made yet
NoToken == Tok("None")

----------------------------------------------------------------------------
(* Lex *)

\* Lex::new
LexNew == [pos |-> 0, line_number |-> 1, line_pos_offset |-> 0]

line_number(lx) == lx.line_number

line_position(lx) == lx.pos - lx.line_pos_offset + 1

next_line(lx) ==
    [pos |-> lx.pos + 1,
     line_number |-> lx.line_number + 1,
     line_pos_offset |-> lx.pos + 1]

peek_byte(lx) ==
    IF lx.pos < Len(input) THEN input[lx.pos + 1] ELSE NoByte

Bump(lx) == [lx EXCEPT !.pos = @ + 1]

\* &self.input[start..self.pos]
Slice(start, end) == SubSeq(input, start + 1, end)

Keyword(ident) ==
    CASE ident = <<"a","n","d">> -> "And"
      [] ident = <<"b","r","e","a","k">> -> "Break"
      [] ident = <<"d","o">> -> "Do"
      [] ident = <<"e","l","s","e">> -> "Else"
      [] ident = <<"e","l","s","e","i","f">> -> "Elseif"
      [] ident = <<"e","n","d">> -> "End"
      [] ident = <<"f","a","l","s","e">> -> "False"
      [] ident = <<"f","o","r">> -> "For"
      [] ident = <<"f","u","n","c","t","i","o","n">> -> "Function"
      [] ident = <<"g","o","t","o">> -> "Goto"
      [] ident = <<"i","f">> -> "If"
      [] ident = <<"i","n">> -> "In"
      [] ident = <<"l","o","c","a","l">> -> "Local"
      [] ident = <<"n","i","l">> -> "Nil"
      [] ident = <<"n","o","t">> -> "Not"
      [] ident = <<"o","r">> -> "Or"
      [] ident = <<"r","e","p","e","a","t">> -> "Repeat"
      [] ident = <<"r","e","t","u","r","n">> -> "Return"
      [] ident = <<"t","h","e","n">> -> "Then"
      [] ident = <<"t","r","u","e">> -> "True"
      [] ident = <<"U","n","t","i","l">> -> "Until"
      [] ident = <<"w","h","i","l","e">> -> "While"
      [] OTHER -> "Name"

RECURSIVE IdentEnd(_)
IdentEnd(lx) ==
    IF peek_byte(lx) # NoByte
         /\ (is_ascii_alphanumeric(peek_byte(lx)) \/ peek_byte(lx) = "_")
    THEN IdentEnd(Bump(lx))
    ELSE lx

\* the token of an identifier run: a keyword's own token, or Name(ident)
IdentToken(ident, k) ==
    IF k = "Name" THEN TokText("Name", ident) ELSE Tok(k)

\* lex_identifier, from `let ident = &self.input[start..self.pos]' on
IdentResult(start, lx2) ==
    [lex |-> lx2,
     tok |-> IdentToken(Slice(start, lx2.pos), Keyword(Slice(start, lx2.pos))),
     start |-> start]

lex_identifier(lx) == IdentResult(lx.pos, IdentEnd(lx))

\* the lookahead left out: the shorter operator whatever follows
Lookahead_short(lx, second, long, short) == [lex |-> lx, kind |-> short]

\* if self.peek_byte() == Some(second) { self.pos += 1; long } else { short }
Lookahead(lx, second, long, short) ==
    IF peek_byte(lx) = second
    THEN [lex |-> Bump(lx), kind |-> long]
    ELSE [lex |-> lx, kind |-> short]

\* b'.': the second lookahead, made only behind a second `.'
ThirdDot(d) ==
    IF d.kind = "Concat" THEN Lookahead(d.lex, ".", "Dots", "Concat") ELSE d

\* a token of one byte
One(l1, k) == [lex |-> l1, kind |-> k]

\* lex_operator: match b { .. }, the first byte b taken and l1 behind it
OperatorMatch(b, l1) ==
    CASE b = "+" -> One(l1, "Add")
      [] b = "-" -> One(l1, "Sub")
      [] b = "*" -> One(l1, "Mul")
      [] b = "/" -> Lookahead(l1, "/", "Idiv", "Div")
      [] b = "=" -> Lookahead(l1, "=", "Equal", "Assign")
      [] b = "~" -> Lookahead(l1, "=", "NotEq", "BitXor")
      [] b = "." -> ThirdDot(Lookahead(l1, ".", "Concat", "Dot"))
      [] b = "<" -> Lookahead(l1, "=", "LesEq", "Less")
      [] b = ">" -> Lookahead(l1, "=", "GreEq", "Greater")
      [] b = "&" -> One(l1, "BitAnd")
      [] b = "|" -> One(l1, "BitOr")
      [] b = "^" -> One(l1, "BitXor")
      [] b = "#" -> One(l1, "Len")
      [] b = "(" -> One(l1, "ParL")
      [] b = ")" -> One(l1, "ParR")
      [] b = "{" -> One(l1, "CurlyL")
      [] b = "}" -> One(l1, "CurlyR")
      [] b = "[" -> One(l1, "SqurL")
      [] b = "]" -> One(l1, "SqurR")
      [] b = ":" -> Lookahead(l1, ":", "DoubColon", "Colon")
      [] b = ";" -> One(l1, "SemiColon")
      [] b = "," -> One(l1, "Comma")
      [] OTHER -> One(l1, "Panic")

OperatorResult(start, r) == [lex |-> r.lex, tok |-> Tok(r.kind), start |-> start]

lex_operator(lx) == OperatorResult(lx.pos, OperatorMatch(peek_byte(lx), Bump(lx)))

\* b'e' | b'E': the sign behind the exponent marker, if there is one
SkipSign(l1) == IF peek_byte(l1) \in {"+", "-"} THEN Bump(l1) ELSE l1

\* the loop of lex_number: st = [lex, has_dot, has_exp]
RECURSIVE NumberScan(_)
NumberScan(st) ==
    IF peek_byte(st.lex) \in Digit
    THEN NumberScan([st EXCEPT !.lex = Bump(@)])
    ELSE IF peek_byte(st.lex) = "." /\ ~st.has_dot /\ ~st.has_exp
    THEN NumberScan([st EXCEPT !.lex = Bump(@), !.has_dot = TRUE])
    ELSE IF peek_byte(st.lex) \in {"e", "E"} /\ ~st.has_exp
    THEN NumberScan([lex |-> SkipSign(Bump(st.lex)),
                     has_dot |-> st.has_dot, has_exp |-> TRUE])
    ELSE st

\* str::parse::<i64> of a slice lex_number took with neither `.' nor an
\* exponent: the slice is all digits.  (An all-digit slice above i64::MAX
\* is an Err, and unwrap() panics; the texts of this model are far shorter
\* than the 19 digits that needs.)
RECURSIVE parse_i64(_)
parse_i64(s) ==
    IF s = <<>> THEN 0
    ELSE 10 * parse_i64(SubSeq(s, 1, Len(s) - 1)) + DigitValue(s[Len(s)])

\* the first byte behind the exponent marker at i and its sign
ExpDigits(s, i) == IF i < Len(s) /\ s[i + 1] \in {"+", "-"} THEN i + 2 ELSE i + 1

\* str::parse::<f64> accepts Digit+ [ '.' Digit* ] [ ('e'|'E') [sign] Digit+ ]:
\* of the slices lex_number takes, it is an Err exactly when an exponent
\* marker is followed by no digit.
parse_f64_ok(s) ==
    \A i \in {j \in 1..Len(s) : s[j] \in {"e", "E"}} :
        /\ ExpDigits(s, i) <= Len(s)
        /\ \A k \in ExpDigits(s, i)..Len(s) : s[k] \in Digit

\* the classification by the decimal point alone
NumberToken_dot_only(slice, has_dot, has_exp) ==
    IF has_dot
    THEN TokText("Float", slice)
    ELSE TokInt(0, slice)

\* match has_dot || has_exp { true => Float(..), false => Integer(..) }
NumberToken(slice, has_dot, has_exp) ==
    IF has_dot \/ has_exp
    THEN IF parse_f64_ok(slice) THEN TokText("Float", slice) ELSE Panic
    ELSE TokInt(parse_i64(slice), slice)

\* lex_number, from `let slice = &self.input[start..self.pos]' on
NumberResult(start, st) ==
    [lex |-> st.lex,
     tok |-> NumberToken(Slice(start, st.lex.pos), st.has_dot, st.has_exp),
     start |-> start]

lex_number(lx) ==
    NumberResult(lx.pos, NumberScan([lex |-> lx, has_dot |-> FALSE, has_exp |-> FALSE]))

RECURSIVE StringEnd(_)
StringEnd(lx) ==
    IF peek_byte(lx) # NoByte /\ peek_byte(lx) # "\"" THEN StringEnd(Bump(lx)) ELSE lx

\* lex_string, from `let s = &self.input[start..self.pos]' on
StringResult(start, l1, l2) ==
    [lex |-> Bump(l2), tok |-> TokText("String", Slice(l1.pos, l2.pos)), start |-> start]

\* an unterminated literal read as the end of the input, the scan position
\* left behind the opening quote
StringResult_eof(start, l1, l2) ==
    IF peek_byte(l2) = NoByte
    THEN [lex |-> l1, tok |-> Tok("Eof"), start |-> start]
    ELSE StringResult(start, l1, l2)

lex_string_eof(lx) == StringResult_eof(lx.pos, Bump(lx), StringEnd(Bump(lx)))

\* Token::String(self.lex_string())
lex_string(lx) == StringResult(lx.pos, Bump(lx), StringEnd(Bump(lx)))

\* Lex::next: the new lexer, the token returned, and where the token began
RECURSIVE next(_)
next(lx) ==
    CASE peek_byte(lx) = NoByte -> [lex |-> lx, tok |-> Tok("Eof"), start |-> lx.pos]
      [] peek_byte(lx) \in {" ", "\t"} -> next(Bump(lx))
      [] peek_byte(lx) \in {"\r", "\n"} -> next(next_line(lx))
      [] peek_byte(lx) \in Lower \cup Upper \cup {"_"} -> lex_identifier(lx)
      [] peek_byte(lx) \in Digit -> lex_number(lx)
      [] peek_byte(lx) = "\"" -> lex_string(lx)
      [] OTHER -> lex_operator(lx)

----------------------------------------------------------------------------
(* Source texts *)

RECURSIVE Concat(_)
Concat(ws) == IF ws = <<>> THEN <<>> ELSE Head(ws) \o Concat(Tail(ws))

\* the texts made of at most n words of W, one behind the other
Texts(W, n) == {Concat(ws) : ws \in UNION {[1..k -> W] : k \in 0..n}}

OpBytes == {"+","-","*","/","%","^","#","&","~","|","<",">","=",
            "(",")","{","}","[","]",";",":",",","."}

KeywordWords ==
    { <<"a","n","d">>, <<"b","r","e","a","k">>, <<"d","o">>,
      <<"e","l","s","e">>, <<"e","l","s","e","i","f">>, <<"e","n","d">>,
      <<"f","a","l","s","e">>, <<"f","o","r">>,
      <<"f","u","n","c","t","i","o","n">>, <<"g","o","t","o">>,
      <<"i","f">>, <<"i","n">>, <<"l","o","c","a","l">>, <<"n","i","l">>,
      <<"n","o","t">>, <<"o","r">>, <<"r","e","p","e","a","t">>,
      <<"r","e","t","u","r","n">>, <<"t","h","e","n">>, <<"t","r","u","e">>,
      <<"u","n","t","i","l">>, <<"w","h","i","l","e">> }

LexWords ==
    {<<b>> : b \in OpBytes}
      \cup KeywordWords
      \cup { <<"U","n","t","i","l">>, <<"x">>, <<"_">>, <<"e">>, <<"E">>,
             <<"1">>, <<"0","7">>, <<"1","e">>, <<"2","E","-">>,
             <<"3",".">>, <<"4",".","5","e","+","6">>,
             <<" ">>, <<"\n">>, <<"\"">>, <<"!">>,
             <<".",".">>, <<"=","=">> }

LexInputs == Texts(LexWords, MaxWords)

----------------------------------------------------------------------------
(* AST (src/src/ast.rs) *)

Span(start, end) == [start |-> start, end |-> end]

ExprNil == [tag |-> "Nil"]
ExprBool(b) == [tag |-> "Bool", bool |-> b]
ExprInteger(n) == [tag |-> "Integer", num |-> n]
ExprFloat(s) == [tag |-> "Float", text |-> s]
ExprIdent(name) == [tag |-> "Ident", name |-> name]
ExprFuncCall(callee, args) == [tag |-> "FuncCall", callee |-> callee, args |-> args]

\* ExprNode::new(expr, (start, end))
ExprNode(expr, start, end) == [expr |-> expr, span |-> Span(start, end)]

StmtBreak == [tag |-> "Break"]
StmtFuncCall(e) == [tag |-> "FuncCall", call |-> e]
StmtMethodCall(e) == [tag |-> "MethodCall", call |-> e]
StmtAssign(targets, values) == [tag |-> "Assign", targets |-> targets, values |-> values]

\* StmtNode::new(stmt, (start, end))
StmtNode(stmt, start, end) == [stmt |-> stmt, span |-> Span(start, end)]

----------------------------------------------------------------------------
(* Parser (src/src/parse.rs).                                              *)
(*                                                                         *)
(* A parser state S holds the fields of Parser (lexer, current), whether   *)
(* the process has aborted inside the lexer (panic), and bookkeeping that  *)
(* the code does not keep but the properties speak of:                     *)
(*   matched   the current token has been matched by the rule being parsed *)
(*             (a match arm or an == on it selected the running branch)    *)
(*   consumed  tokens other than Eof that advance() has discarded          *)
(*   dropped   those of them discarded without having been matched         *)
(*   lexlog    every call of lexer.next() that returned: the scan position *)
(*             and the line counter before and after, and the kind of      *)
(*             token returned                                              *)
(*   iters     every completed iteration of the statement loop of parse()  *)
(*             and of the argument loop of expression(): `consumed' before *)
(*             and after it                                                *)

NoErr == [kind |-> "none", expected |-> "", got |-> NoToken, line |-> 0, col |-> 0]

\* Error::SyntaxError(format!("Expected {:?}, got {:?} at line {}:{}", ..))
ExpectedErr(S, expected) ==
    [kind |-> "Expected", expected |-> expected, got |-> S.current,
     line |-> line_number(S.lexer), col |-> line_position(S.lexer)]

\* Error::SyntaxError(format!("Unexpected token {:?} at line {}:{}", ..))
UnexpectedErr(S) ==
    [kind |-> "Unexpected", expected |-> "", got |-> S.current,
     line |-> line_number(S.lexer), col |-> line_position(S.lexer)]

\* the Parser before Parser::new has pulled the first token
PsNew ==
    [lexer |-> LexNew, current |-> NoToken, panic |-> FALSE, matched |-> FALSE,
     consumed |-> 0, dropped |-> <<>>, lexlog |-> <<>>, iters |-> <<>>]

IsToken(t) == t.kind \notin {"Eof", "None"}

\* advance(), the call of self.lexer.next() having returned r
Advanced(S, r) ==
    IF r.tok = Panic THEN [S EXCEPT !.panic = TRUE]
    ELSE [S EXCEPT
            !.lexer = r.lex,
            !.current = r.tok,
            !.matched = FALSE,
            !.consumed = IF IsToken(S.current) THEN @ + 1 ELSE @,
            !.dropped = IF IsToken(S.current) /\ ~S.matched
                        THEN Append(@, S.current) ELSE @,
            !.lexlog = Append(@, [from |-> S.lexer.pos,
                                  to |-> r.lex.pos,
                                  line_from |-> S.lexer.line_number,
                                  line_to |-> r.lex.line_number,
                                  kind |-> r.tok.kind])]

\* self.current = self.lexer.next()
advance(S) == IF S.panic THEN S ELSE Advanced(S, next(S.lexer))

\* a match arm or a comparison has selected the branch by the current token
Match(S) == [S EXCEPT !.matched = TRUE]

\* Parser::expect
expect(S, expected) ==
    IF S.current.kind = expected
    THEN [ps |-> advance(Match(S)), err |-> NoErr]
    ELSE [ps |-> S, err |-> ExpectedErr(S, expected)]

\* let end_span ..; ExprNode::new(expr, ..) with the ends of the span exchanged
Finished_swapped(S2, expr, start_span) ==
    [ps |-> S2, node |-> ExprNode(expr, line_number(S2.lexer), start_span)]

\* let end_span = self.lexer.line_number(); Ok(ExprNode::new(expr, ..))
Finished(S2, expr, start_span) ==
    [ps |-> S2, node |-> ExprNode(expr, start_span, line_number(S2.lexer))]

\* the end of expression() with the advance() left out
finish_expr_noadvance(S, expr, start_span) == Finished(S, expr, start_span)

\* the end of expression(): self.advance(); end_span; Ok(ExprNode::new(..))
finish_expr(S, expr, start_span) == Finished(advance(S), expr, start_span)

RetNone == [kind |-> "none"]
RetOk(node) == [kind |-> "ok", node |-> node]
RetErr(err) == [kind |-> "err", err |-> err]

\* what expression() returns behind a call's arguments
CallReturn(f) == [ps |-> f.ps, ret |-> RetOk(f.node)]

\* Expr::FuncCall(Box::new(ExprNode::new(Expr::Ident(name), ..)), args)
CallExpr(S, start_span, name, args) ==
    ExprFuncCall(ExprNode(ExprIdent(name), start_span, line_number(S.lexer)), args)

\* expression(), behind self.expect(Token::ParR), e what expect returned
CallClosed(e, start_span, name, args) ==
    IF e.err # NoErr
    THEN [ps |-> e.ps, ret |-> RetErr(e.err)]
    ELSE CallReturn(finish_expr(e.ps, CallExpr(e.ps, start_span, name, args),
                                start_span))

\* expression(), from self.expect(Token::ParR)? of a call to its return
CallClose(S, start_span, name, args) ==
    CallClosed(expect(S, "ParR"), start_span, name, args)

\* one activation of parse(), statement() or expression()
Frame(fn, pc) ==
    [fn |-> fn, pc |-> pc, start_span |-> 0, name |-> <<>>, args |-> <<>>,
     mark |-> 0]

Top == stack[Len(stack)]
Pop == SubSeq(stack, 1, Len(stack) - 1)
ReplaceTop(f) == [stack EXCEPT ![Len(stack)] = f]
Call(f, fn) == Append(ReplaceTop(f), Frame(fn, "begin"))
At(fn, pc) == stack # <<>> /\ Top.fn = fn /\ Top.pc = pc

Running == [status |-> "running", stmts |-> <<>>, err |-> NoErr]
Aborted == [status |-> "panic", stmts |-> <<>>, err |-> NoErr]

\* the end of a step: the process is gone if the lexer panicked in it
Step(S, stk, r, sts, res) ==
    /\ steps' = steps + 1
    /\ ps' = S
    /\ stack' = IF S.panic THEN <<>> ELSE stk
    /\ ret' = IF S.panic THEN RetNone ELSE r
    /\ stmts' = IF S.panic THEN <<>> ELSE sts
    /\ result' = IF S.panic THEN Aborted ELSE res
    /\ UNCHANGED <<input, lexVars>>

\* a callee returns r to the frame below it
Return(S, r) == Step(S, Pop, r, stmts, result)

\* Parser::new(lexer)
ParserNew ==
    /\ result.status = "new"
    /\ Step(advance(ps), <<Frame("parse", "loop")>>, RetNone, <<>>, Running)

\* parse(): while self.current != Token::Eof { .. self.statement() .. }
ParseLoop ==
    /\ At("parse", "loop")
    /\ ps.current.kind # "Eof"
    /\ Step(ps,
            Call([Top EXCEPT !.pc = "push", !.mark = ps.consumed], "statement"),
            RetNone, stmts, result)

\* parse(): Ok(stmts)
ParseReturn ==
    /\ At("parse", "loop")
    /\ ps.current.kind = "Eof"
    /\ Step(ps, <<>>, RetNone, <<>>,
            [status |-> "ok", stmts |-> stmts, err |-> NoErr])

\* a completed iteration of a loop, entered in the bookkeeping
Iterated(S, loop, mark) ==
    [S EXCEPT !.iters = Append(@, [loop |-> loop, before |-> mark,
                                   after |-> S.consumed])]

\* parse(): stmts.push(self.statement()?)
ParsePush ==
    /\ At("parse", "push")
    /\ IF ret.kind = "err"
       THEN Step(ps, <<>>, RetNone, <<>>,
                 [status |-> "err", stmts |-> <<>>, err |-> ret.err])
       ELSE Step(Iterated(ps, "statement", Top.mark),
                 ReplaceTop([Top EXCEPT !.pc = "loop"]),
                 RetNone, Append(stmts, ret.node), result)

\* statement(): Ok(StmtNode::new(Stmt::Break, (start_span, end_span)))
BreakReturn(S, start_span) ==
    Return(S, RetOk(StmtNode(StmtBreak, start_span, line_number(S.lexer))))

\* statement(): Token::Break => { self.advance(); Ok(Stmt::Break) }
StatementBreak ==
    /\ At("statement", "begin")
    /\ ps.current.kind = "Break"
    /\ BreakReturn(advance(Match(ps)), line_number(ps.lexer))

\* statement(): _ => { let expr = self.expression()
StatementExpr ==
    /\ At("statement", "begin")
    /\ ps.current.kind # "Break"
    /\ Step(ps,
            Call([Top EXCEPT !.pc = "expr", !.start_span = line_number(ps.lexer)],
                 "expression"),
            RetNone, stmts, result)

\* statement(): match &expr.expr { .. }
Classify(expr) ==
    CASE expr.expr.tag = "FuncCall" -> StmtFuncCall(expr)
      [] expr.expr.tag = "MethodCall" -> StmtMethodCall(expr)
      [] OTHER -> StmtAssign(<<expr>>, <<>>)

\* statement(): ?; match &expr.expr { .. }; Ok(StmtNode::new(..))
StatementReturn ==
    /\ At("statement", "expr")
    /\ IF ret.kind = "err"
       THEN Return(ps, ret)
       ELSE Return(ps, RetOk(StmtNode(Classify(ret.node), Top.start_span,
                                      line_number(ps.lexer))))

\* expression(): the literal arms of match self.current
Literal(c) ==
    CASE c.kind = "False" -> ExprBool(FALSE)
      [] c.kind = "Nil" -> ExprNil
      [] c.kind = "Integer" -> ExprInteger(c.num)
      [] c.kind = "Float" -> ExprFloat(c.text)

\* expression() returns Ok(node)
ExprReturn(f) == Return(f.ps, RetOk(f.node))

\* expression(): Token::False | Token::Nil | Token::Integer | Token::Float
ExprLiteral ==
    /\ At("expression", "begin")
    /\ ps.current.kind \in {"False", "Nil", "Integer", "Float"}
    /\ ExprReturn(finish_expr(Match(ps), Literal(ps.current), line_number(ps.lexer)))

\* expression() returns what the end of a call made of it
CallEnd(c) == Return(c.ps, c.ret)

\* expression(): behind the `(' of a call: the first argument, or the `)'
CallOpened(S2, start_span, name) ==
    IF S2.current.kind # "ParR"
    THEN Step(S2,
              Call([Top EXCEPT !.pc = "arg", !.start_span = start_span,
                               !.name = name, !.args = <<>>,
                               !.mark = S2.consumed],
                   "expression"),
              RetNone, stmts, result)
    ELSE CallEnd(CallClose(S2, start_span, name, <<>>))

\* expression(): behind the name: if self.current == Token::ParL { .. } else { .. }
Named(S1, start_span, name) ==
    IF S1.current.kind = "ParL"
    THEN CallOpened(advance(Match(S1)), start_span, name)
    ELSE ExprReturn(finish_expr(S1, ExprIdent(name), start_span))

\* expression(): Token::Name(s), up to the first argument of a call, or to
\* the return when there is none
ExprName ==
    /\ At("expression", "begin")
    /\ ps.current.kind = "Name"
    /\ Named(advance(Match(ps)), line_number(ps.lexer), ps.current.text)

\* expression(): behind an argument and its comma: the next argument
NextArg(S, args) ==
    Step(S,
         Call([Top EXCEPT !.args = args, !.mark = S.consumed], "expression"),
         RetNone, stmts, result)

\* expression(): args.push(self.expression()?); Comma => advance, else break
ExprArg ==
    /\ At("expression", "arg")
    /\ IF ret.kind = "err"
       THEN Return(ps, ret)
       ELSE IF ps.current.kind = "Comma"
       THEN NextArg(Iterated(advance(Match(ps)), "argument", Top.mark),
                    Append(Top.args, ret.node))
       ELSE CallEnd(CallClose(Iterated(ps, "argument", Top.mark),
                              Top.start_span, Top.name,
                              Append(Top.args, ret.node)))

\* expression(): Token::ParL => { self.advance(); self.expression()
ExprParen ==
    /\ At("expression", "begin")
    /\ ps.current.kind = "ParL"
    /\ Step(advance(Match(ps)),
            Call([Top EXCEPT !.pc = "paren"], "expression"),
            RetNone, stmts, result)

\* expression(): self.expect(Token::ParR)?; return Ok(inner)
ParenClosed(e, inner) ==
    IF e.err # NoErr THEN Return(e.ps, RetErr(e.err)) ELSE Return(e.ps, inner)

\* expression(): ?; self.expect(Token::ParR)?; return Ok(inner)
ExprParenClose ==
    /\ At("expression", "paren")
    /\ IF ret.kind = "err"
       THEN Return(ps, ret)
       ELSE ParenClosed(expect(ps, "ParR"), ret)

\* expression(): _ => return Err(SyntaxError("Unexpected token ..."))
ExprUnexpected ==
    /\ At("expression", "begin")
    /\ ps.current.kind \notin {"False", "Nil", "Integer", "Float", "Name", "ParL"}
    /\ Return(ps, RetErr(UnexpectedErr(ps)))

\* the source texts given to the parser
ParseFrags ==
    { <<"x">>, <<"f","o","o">>, <<"(">>, <<")">>, <<",">>, <<"1">>, <<"=">>,
      <<"b","r","e","a","k">>, <<" ">>, <<"\n">>, <<"f","a","l","s","e">>,
      <<"n","i","l">>, <<"2",".","5">>, <<"!">>, <<"\"","s","\"">>,
      <<"i","f"," ","x"," ","t","h","e","n">>,
      <<"x"," ","=", " ","1">>,
      <<"f","o","o","(","1",","," ","2",")">> }

ParseInputs == Texts(ParseFrags, MaxFrags)

LexIdle ==
    /\ lex = LexNew
    /\ tok = NoToken
    /\ tokStart = 0
    /\ calls = 0

\* let mut parser = Parser::new(Lex::new(input)); parser.parse()
ParseInit ==
    /\ input \in ParseInputs
    /\ LexIdle
    /\ ps = PsNew
    /\ stack = <<>>
    /\ ret = RetNone
    /\ stmts = <<>>
    /\ result = [status |-> "new", stmts |-> <<>>, err |-> NoErr]
    /\ steps = 0

ParseNext ==
    \/ ParserNew
    \/ ParseLoop
    \/ ParseReturn
    \/ ParsePush
    \/ StatementBreak
    \/ StatementExpr
    \/ StatementReturn
    \/ ExprLiteral
    \/ ExprName
    \/ ExprArg
    \/ ExprParen
    \/ ExprParenClose
    \/ ExprUnexpected

SpecParse == ParseInit /\ [][ParseNext]_vars

----------------------------------------------------------------------------
(* A caller of the lexer: main() pulls tokens until Eof; the interface     *)
(* lets a caller go on calling next() after that.                          *)

ParserIdle ==
    /\ ps = PsNew
    /\ stack = <<>>
    /\ ret = RetNone
    /\ stmts = <<>>
    /\ result = [status |-> "idle", stmts |-> <<>>, err |-> NoErr]
    /\ steps = 0

LexInit ==
    /\ input \in LexInputs
    /\ lex = LexNew
    /\ tok = NoToken
    /\ tokStart = 0
    /\ calls = 0
    /\ ParserIdle

\* the caller's view of a call that has returned
Returned(r) ==
    /\ lex' = r.lex
    /\ tok' = r.tok
    /\ tokStart' = r.start

LexCall ==
    /\ tok # Panic
    /\ calls < MaxEofCalls
    /\ Returned(next(lex))
    /\ calls' = IF tok.kind = "Eof" THEN calls + 1 ELSE calls
    /\ UNCHANGED <<input, parseVars>>

LexNext == LexCall

SpecLex == LexInit /\ [][LexNext]_vars

----------------------------------------------------------------------------
(* Properties of the lexer, checked under SpecLex *)

\* a call of next() has returned (or aborted)
Called == tok # NoToken

\* the bytes the last token was made of
Lexeme == SubSeq(input, tokStart + 1, lex.pos)

SpellsAt(p, sp) ==
    /\ p + Len(sp) <= Len(input)
    /\ SubSeq(input, p + 1, p + Len(sp)) = sp

\* the keyword table of the language: each word and its dedicated token
KeywordTokens ==
    { <<<<"a","n","d">>, "And">>, <<<<"b","r","e","a","k">>, "Break">>,
      <<<<"d","o">>, "Do">>, <<<<"e","l","s","e">>, "Else">>,
      <<<<"e","l","s","e","i","f">>, "Elseif">>, <<<<"e","n","d">>, "End">>,
      <<<<"f","a","l","s","e">>, "False">>, <<<<"f","o","r">>, "For">>,
      <<<<"f","u","n","c","t","i","o","n">>, "Function">>,
      <<<<"g","o","t","o">>, "Goto">>, <<<<"i","f">>, "If">>,
      <<<<"i","n">>, "In">>, <<<<"l","o","c","a","l">>, "Local">>,
      <<<<"n","i","l">>, "Nil">>, <<<<"n","o","t">>, "Not">>,
      <<<<"o","r">>, "Or">>, <<<<"r","e","p","e","a","t">>, "Repeat">>,
      <<<<"r","e","t","u","r","n">>, "Return">>, <<<<"t","h","e","n">>, "Then">>,
      <<<<"t","r","u","e">>, "True">>, <<<<"u","n","t","i","l">>, "Until">>,
      <<<<"w","h","i","l","e">>, "While">> }

IsIdentifierRun(s) ==
    /\ s # <<>>
    /\ s[1] \in Lower \cup Upper \cup {"_"}
    /\ \A i \in 1..Len(s) : s[i] \in Lower \cup Upper \cup Digit \cup {"_"}

\* C2: a source text that is one keyword lexes to that keyword's dedicated
\* token and never to Name; a text that is any other identifier run lexes
\* to Name carrying the text.
C2_KeywordsNeverName ==
    (Called /\ tokStart = 0 /\ tok.kind # "Eof" /\ IsIdentifierRun(input)) =>
        IF \E kw \in KeywordTokens : kw[1] = input
        THEN \E kw \in KeywordTokens : kw[1] = input /\ tok = Tok(kw[2])
        ELSE tok = TokText("Name", input)

\* the operators of more than one byte, each with its token
MultiByteOps ==
    { <<<<"/","/">>, "Idiv">>, <<<<"=","=">>, "Equal">>, <<<<"~","=">>, "NotEq">>,
      <<<<"<","=">>, "LesEq">>, <<<<">","=">>, "GreEq">>,
      <<<<".",".">>, "Concat">>, <<<<".",".",".">>, "Dots">>,
      <<<<":",":">>, "DoubColon">> }

\* C3: when the bytes at which a token begins spell an operator of more
\* than one byte (the longest one that they spell), the call returns that
\* operator's token and the scan position is behind all of its bytes.
C3_GreedyOperators ==
    Called =>
        \A op \in MultiByteOps :
            (/\ SpellsAt(tokStart, op[1])
             /\ \A longer \in MultiByteOps :
                    Len(longer[1]) > Len(op[1]) => ~SpellsAt(tokStart, longer[1]))
            => (tok = Tok(op[2]) /\ lex.pos = tokStart + Len(op[1]))

\* `...' followed by a further `.': one Dots, three bytes taken
C3_Witness ==
    /\ Called
    /\ SpellsAt(tokStart, <<".",".",".",".">>)
    /\ tok = Tok("Dots")
    /\ lex.pos = tokStart + 3

Count(s, S) == Cardinality({i \in 1..Len(s) : s[i] \in S})

Pow10(n) == CASE n = 0 -> 1 [] n = 1 -> 10 [] n = 2 -> 100 [] n = 3 -> 1000
              [] n = 4 -> 10000 [] n = 5 -> 100000 [] n = 6 -> 1000000
              [] n = 7 -> 10000000 [] n = 8 -> 100000000

RECURSIVE SumOver(_, _)
SumOver(s, I) ==
    IF I = {} THEN 0
    ELSE LET i == CHOOSE j \in I : TRUE
         IN  DigitValue(s[i]) * Pow10(Len(s) - i) + SumOver(s, I \ {i})

\* the value of an all-digit text, by place value
PlaceValue(s) == SumOver(s, 1..Len(s))

HasMark(s) == \E i \in 1..Len(s) : s[i] \in {".", "e", "E"}

\* C4: a token that begins with a digit is a Float exactly when the bytes
\* taken hold a decimal point or an exponent marker, and otherwise an
\* Integer holding the decimal value of the all-digit bytes; the bytes
\* taken hold at most one decimal point and one exponent marker, and no
\* decimal point behind the exponent marker.  (No token is returned, the
\* process aborting, only for an exponent marker that no digit follows.)
C4_NumberClassification ==
    (Called /\ tokStart < Len(input) /\ input[tokStart + 1] \in Digit) =>
        /\ tok.kind \in {"Float", "Integer", "Panic"}
        /\ tok.kind = "Float" => (HasMark(Lexeme) /\ tok.text = Lexeme)
        /\ tok.kind = "Integer" =>
              /\ ~HasMark(Lexeme)
              /\ \A i \in 1..Len(Lexeme) : Lexeme[i] \in Digit
              /\ tok.num = PlaceValue(Lexeme)
        /\ tok.kind = "Panic" =>
              /\ HasMark(Lexeme)
              /\ Lexeme[Len(Lexeme)] \in {"e", "E", "+", "-"}
        /\ Count(Lexeme, {"."}) <= 1
        /\ Count(Lexeme, {"e", "E"}) <= 1
        /\ \A i, j \in 1..Len(Lexeme) :
              (Lexeme[i] \in {"e", "E"} /\ Lexeme[j] = ".") => j < i

\* an exponent with no decimal point is a Float; the `.' behind it is left
C4_Witness ==
    /\ Called
    /\ tokStart = 0
    /\ input = <<"1","e","3",".">>
    /\ tok = TokText("Float", <<"1","e","3">>)
    /\ lex.pos = 3

\* C5: once next() has returned Eof, a further call returns Eof again and
\* leaves the scan position and the line counter as they were.
C5_EofIsFinal ==
    [][tok.kind = "Eof" =>
          /\ tok'.kind = "Eof"
          /\ lex'.pos = lex.pos
          /\ lex'.line_number = lex.line_number]_vars

\* a call made after Eof, the text ending inside a string literal across a
\* line break: Eof again, the scan position one past the end of the text
C5_Witness ==
    /\ tok.kind = "Eof"
    /\ calls >= 1
    /\ lex.pos = Len(input) + 1
    /\ input = <<"\"", "\n">>

\* the operators of one byte, each with its own token
SingleByteOps ==
    { <<"+", "Add">>, <<"-", "Sub">>, <<"*", "Mul">>, <<"%", "Mod">>,
      <<"^", "Pow">>, <<"#", "Len">>, <<"&", "BitAnd">>, <<"|", "BitOr">>,
      <<"(", "ParL">>, <<")", "ParR">>, <<"{", "CurlyL">>, <<"}", "CurlyR">>,
      <<"[", "SqurL">>, <<"]", "SqurR">>, <<";", "SemiColon">>,
      <<":", "Colon">>, <<",", "Comma">> }

\* C9: a source text of one operator byte lexes to that byte's own token
\* (`^' to Pow); BitXor is returned only for a `~' that no `=' follows.
C9_SingleByteOperators ==
    Called =>
        /\ \A op \in SingleByteOps :
              (input = <<op[1]>> /\ tokStart = 0 /\ tok.kind # "Eof")
                  => tok = Tok(op[2])
        /\ tok.kind = "BitXor" =>
              /\ Lexeme = <<"~">>
              /\ ~SpellsAt(tokStart, <<"~", "=">>)

----------------------------------------------------------------------------
(* Properties of the parser, checked under SpecParse *)

\* parse() has returned
Returned_parse == result.status \in {"ok", "err"}

FooCallText == <<"f","o","o","(","1",","," ","2",")">>
AssignText == <<"x"," ","="," ","1">>
IfText == <<"i","f"," ","x"," ","t","h","e","n">>

\* C1: parse() of `foo(1, 2)' returns exactly one statement, a FuncCall;
\* parse() of `x = 1' returns exactly one statement, an Assign with the one
\* target x and the one value 1.
C1_StatementClassification ==
    /\ (input = FooCallText /\ Returned_parse) =>
          /\ result.status = "ok"
          /\ Len(result.stmts) = 1
          /\ result.stmts[1].stmt.tag = "FuncCall"
    /\ (input = AssignText /\ Returned_parse) =>
          /\ result.status = "ok"
          /\ Len(result.stmts) = 1
          /\ result.stmts[1].stmt.tag = "Assign"
          /\ Len(result.stmts[1].stmt.targets) = 1
          /\ result.stmts[1].stmt.targets[1].expr = ExprIdent(<<"x">>)
          /\ Len(result.stmts[1].stmt.values) = 1
          /\ result.stmts[1].stmt.values[1].expr = ExprInteger(1)

\* C6: parse() returns the statements or an error, never both; for
\* `if x then' it returns a syntax error that names the missing `end' and
\* the place, the end of the text, at which it was expected.
C6_FailFast ==
    /\ result.status = "err" => result.stmts = <<>>
    /\ (input = IfText /\ Returned_parse) =>
          /\ result.status = "err"
          /\ result.err.kind = "Expected"
          /\ result.err.expected = "End"
          /\ result.err.line = 1
          /\ result.err.col = Len(input) + 1

\* a bound on the steps of a parse in the length of the text: at most six
\* for a byte (a statement that is one `(': four steps of parse() and
\* statement(), two of expression()), one for Parser::new and one for the
\* return or the report of the token missing at the end
StepBound == 6 * Len(input) + 2

\* the guards of the steps of a running parse: the frame on top of the stack
\* is at a place from which one of them goes on
CanStep ==
    \/ At("parse", "loop")
    \/ At("parse", "push") /\ ret.kind \in {"ok", "err"}
    \/ At("statement", "begin")
    \/ At("statement", "expr") /\ ret.kind \in {"ok", "err"}
    \/ At("expression", "begin")
    \/ At("expression", "arg") /\ ret.kind \in {"ok", "err"}
    \/ At("expression", "paren") /\ ret.kind \in {"ok", "err"}

\* C7: parsing ends within a number of steps bounded by the length of the
\* text: every completed iteration of the statement loop and of the
\* argument loop has consumed a token, every call of next() that returned
\* a token other than Eof has moved the scan position forward, and a
\* parse that has not returned can take a step.
C7_Terminates ==
    /\ \A i \in DOMAIN ps.iters : ps.iters[i].after > ps.iters[i].before
    /\ \A i \in DOMAIN ps.lexlog :
          ps.lexlog[i].kind # "Eof" => ps.lexlog[i].to >= ps.lexlog[i].from + 1
    /\ steps <= StepBound
    /\ result.status = "running" => CanStep

\* `foo(1, 2)' parsed to the end: two iterations of the argument loop
\* inside one of the statement loop
C7_Witness ==
    /\ input = FooCallText
    /\ result.status = "ok"
    /\ Len(ps.iters) = 3
    /\ ps.iters[1].loop = "argument"
    /\ ps.iters[3].loop = "statement"
    /\ ps.consumed = 6

RECURSIVE ExprSpansOk(_)
ExprSpansOk(n) ==
    /\ n.span.end >= n.span.start
    /\ n.expr.tag = "FuncCall" =>
          /\ ExprSpansOk(n.expr.callee)
          /\ \A i \in DOMAIN n.expr.args : ExprSpansOk(n.expr.args[i])

StmtSpansOk(n) ==
    /\ n.span.end >= n.span.start
    /\ n.stmt.tag \in {"FuncCall", "MethodCall"} => ExprSpansOk(n.stmt.call)
    /\ n.stmt.tag = "Assign" =>
          /\ \A i \in DOMAIN n.stmt.targets : ExprSpansOk(n.stmt.targets[i])
          /\ \A i \in DOMAIN n.stmt.values : ExprSpansOk(n.stmt.values[i])

\* C8: every node built so far (returned, collected by parse(), held as an
\* argument of a call still open, or just handed back by a callee) has a
\* span that ends at or behind its start, at every depth; the line counter
\* starts at 1 and no call of next() lowers it.
C8_SpansOrdered ==
    /\ \A i \in DOMAIN stmts : StmtSpansOk(stmts[i])
    /\ \A i \in DOMAIN result.stmts : StmtSpansOk(result.stmts[i])
    /\ \A i \in DOMAIN stack :
          \A j \in DOMAIN stack[i].args : ExprSpansOk(stack[i].args[j])
    /\ (ret.kind = "ok" /\ At("statement", "expr")) => ExprSpansOk(ret.node)
    /\ (ret.kind = "ok" /\ At("expression", "arg")) => ExprSpansOk(ret.node)
    /\ (ret.kind = "ok" /\ At("expression", "paren")) => ExprSpansOk(ret.node)
    /\ (ret.kind = "ok" /\ At("parse", "push")) => StmtSpansOk(ret.node)
    /\ ps.lexer.line_number >= 1
    /\ \A i \in DOMAIN ps.lexlog :
          /\ ps.lexlog[i].line_from >= 1
          /\ ps.lexlog[i].line_to >= ps.lexlog[i].line_from

\* a call whose `)' is on the line below its name: the call and the callee
\* built inside it both span lines 1 to 2
C8_Witness ==
    /\ result.status = "ok"
    /\ Len(result.stmts) = 1
    /\ result.stmts[1].stmt.tag = "FuncCall"
    /\ result.stmts[1].stmt.call.span = Span(1, 2)
    /\ result.stmts[1].stmt.call.expr.callee.span = Span(1, 2)
    /\ result.stmts[1].span = Span(1, 2)

\* C10: advance() discards the current token only when the rule being
\* parsed (or expect()) has matched it: no token is dropped unexamined.
C10_NoTokenDropped == ps.dropped = <<>>

====
